---- MODULE Spec2Model ----
(***************************************************************************)
(* Storage orchestrator of pkg/storage: the periodic maintenance tasks     *)
(* (size-triggered GC, eviction, write-back, metrics), the maintenance     *)
(* mutex, the stop channel, the task wait-group, Close, and the            *)
(* per-database GC task that newBadger attaches.                           *)
(*                                                                         *)
(* Sizes are in abstract units (one unit stands for 256 MB), memory in     *)
(* quarters of the total memory.  bytesize.ByteSize is not part of the     *)
(* sources at hand; sizes are modelled as signed integers, so a            *)
(* difference of sizes can be negative.                                    *)
(***************************************************************************)
EXTENDS Integers, Sequences, FiniteSets, TLC

\* ------------------------------------------------------------------ bounds

\* Largest on-disk size a single database reaches in the model.
MaxSize == 1

\* Total system memory returned by getMemTotal, in memory units.
MemTotal == 4

\* The timer of a per-database GC task stops firing once the database's
\* reclaim counter has reached this number.
MaxGcCount == 3

\* The largest number of entries of a cache.
MaxCache == 1

\* The largest number of bytes of a key handed to a prefix.
MaxKeyLen == 3

\* The engine answers at most this many RunValueLogGC calls of one reclaim
\* pass; one of its answers is not a success.
MaxVlogCalls == 3

\* ------------------------------------------------------ program constants

\* storageOptions.gcSizeDiff (256 MB, one size unit).
GcSizeDiff == 1

\* config.CacheEvictThreshold as a number of memory units out of RatioDen
\* (0.5 of the total memory).
CacheEvictThreshold == 2

\* Denominator of CacheEvictThreshold.
RatioDen == 4

\* config.CacheEvictVolume, the share of the trees cache to evict, in percent.
CacheEvictVolume == 33

\* The discard ratio newBadger hands to runGC, in percent (0.7).
DiscardRatio == 70

\* The number of compactors runGC hands to Flatten.
FlattenWorkers == 2

\* ---------------------------------------------------------------- the store

\* Storage.databases(): the fixed list, in its order.
databases == <<"main", "dimensions", "segments", "dicts", "trees">>

DBs == {databases[i] : i \in 1..Len(databases)}

\* New opens the databases in this order (lines 91-105).
openOrder == <<"main", "dicts", "dimensions", "segments", "trees">>

\* Every database with a cache, main included.
HasCacheAll(d) == TRUE

\* d.Cache != nil: New passes a codec for every database except main.
HasCache(d) == d # "main"

\* The four tasks New launches (lines 121-125).
OrchTasks == {"gc", "evict", "writeBack", "metrics"}

\* An s.wg.Add that counts one task too few.
WgAddShort == Cardinality(OrchTasks) - 1

\* The argument of s.wg.Add in New (line 121).
WgAdd == 4

\* A database name used as a task id stands for the GC task newBadger attaches
\* to that database.
Tasks == OrchTasks \cup DBs

\* The size-triggered GC started through periodicTask alone.
IsMaintenanceButGC(t) == t \in {"evict", "writeBack"} \cup DBs

\* Tasks started through maintenanceTask: their body runs under s.maintenance.
IsMaintenance(t) == t \in {"gc", "evict", "writeBack"} \cup DBs

NoTask == "none"

VARIABLES
    pc,          \* task -> position in periodicTask / maintenanceTask
    entry,       \* task -> how the current body execution was entered
    timer,       \* task -> state of the task's time.Timer
    maintenance, \* holder of s.maintenance, or NoTask
    stop,        \* s.stop is closed
    wg,          \* counter of s.wg
    obs,         \* task -> what the body execution in progress read and called
    gcSizeDiff,  \* storageOptions.gcSizeDiff
    size,        \* s.size, the aggregate baseline of watchDBSize
    dbSize,      \* database -> on-disk size the engine reports
    dbSizeGauge, \* database -> metrics.dbSize gauge
    lastGC,      \* database -> d.lastGC
    gcCount,     \* database -> d.gcCount
    newPc,       \* position of New
    opened,      \* databases whose engine New has opened
    closePc,     \* position of Close
    gor,         \* database -> position of the goroutine goDB starts for it
    dclose,      \* database -> position inside d.close()
    closeCalls,  \* database -> number of d.close() calls
    flushes,     \* database -> number of Cache.Flush calls
    engineCloses,\* database -> number of DB.Close calls
    closeErr,    \* database -> the last DB.Close returned an error
    cacheSize,   \* database -> d.Cache.Size(), the entries its cache holds
    cacheSizeGauge, \* database -> metrics.cacheSize gauge
    answers,     \* results of the latest DiskUsage / CacheStats calls
    ctor,        \* outcomes of migrate and getMemTotal inside New
    pfx          \* a prefix, a key and what key and trim made of them

taskVars  == <<pc, entry, timer, maintenance, wg, obs>>
storeVars == <<size, dbSize, dbSizeGauge, lastGC, gcCount>>
newVars   == <<newPc, opened>>
closeVars == <<closePc, gor, dclose, closeCalls, flushes, engineCloses, closeErr>>
auxVars   == <<cacheSize, cacheSizeGauge, answers, ctor, pfx>>
vars == <<pc, entry, timer, maintenance, stop, wg, obs, gcSizeDiff, size,
          dbSize, dbSizeGauge, lastGC, gcCount, newPc, opened, closePc, gor,
          dclose, closeCalls, flushes, engineCloses, closeErr, cacheSize,
          cacheSizeGauge, answers, ctor, pfx>>

\* ------------------------------------------------------------------ helpers

RECURSIVE SumSeq(_, _)
\* The sum of f over the elements of the sequence s.
SumSeq(f, s) ==
    IF s = <<>> THEN 0 ELSE f[Head(s)] + SumSeq(f, Tail(s))

\* DiskUsage that adds what it reads to the map of the call before.
DiskUsageAccumulated ==
    [d \in DBs |->
       dbSize[d] + (IF answers # <<>> /\ answers[Len(answers)].kind = "DiskUsage"
                    THEN answers[Len(answers)].res[d] ELSE 0)]

\* Storage.DiskUsage(): database name -> d.size().
DiskUsage == [d \in DBs |-> dbSize[d]]

\* Storage.CacheStats(): the databases that own a cache.
CacheStatsKeys == {d \in DBs : HasCache(d)}

\* Storage.CacheStats(): database name -> d.Cache.Size(), for the databases
\* with d.Cache != nil (lines 300-307).
CacheStats == [d \in CacheStatsKeys |-> cacheSize[d]]

\* migrate and getMemTotal have not been called.
NoCtor == [migrate |-> "none", mem |-> "none"]

\* One call a task body makes on a collaborator.
Call(op, d, arg) == [op |-> op, db |-> d, arg |-> arg]

NoObs == [in |-> 0 - 1, old |-> 0 - 1, calls |-> <<>>]


\* ------------------------------------------------------------- task bodies

\* File sizes only shrink in a garbage-collection pass.
Shrinks(new) == \A d \in DBs : new[d] <= dbSize[d]

\* Storage.CollectGarbage: the full pass over all databases.  It leaves every
\* database at some size not above the one it had.
CollectGarbage(new) ==
    /\ Shrinks(new)
    /\ dbSize' = new

\* The test of watchDBSize on the distance between n and the baseline.
SizeTriggerEitherWay(diff, n, base) ==
    diff = 0 \/ n - base > diff \/ base - n > diff

\* The test of watchDBSize with >= for >.
SizeTriggerAtLeast(diff, n, base) == diff = 0 \/ n - base >= diff

\* The test of watchDBSize (line 254) on the measured aggregate size n.
SizeTrigger(diff, n, base) == diff = 0 \/ n - base > diff

\* watchDBSize that calls f and leaves s.size as it was.
WatchDBSizeKeepsBase ==
    LET n == SumSeq(DiskUsage, databases) IN
    IF gcSizeDiff = 0 \/ n - size > gcSizeDiff
    THEN /\ size' = size
         /\ \E new \in [DBs -> 0..MaxSize] : CollectGarbage(new)
         /\ obs' = [obs EXCEPT !["gc"] =
                [in |-> n, old |-> size,
                 calls |-> <<Call("CollectGarbage", "all", 0)>>]]
    ELSE /\ UNCHANGED <<size, dbSize>>
         /\ obs' = [obs EXCEPT !["gc"] = [in |-> n, old |-> size, calls |-> <<>>]]

\* The closure watchDBSize returns (lines 249-258), run by the task "gc".
WatchDBSize ==
    LET n == SumSeq(DiskUsage, databases) IN
    IF SizeTrigger(gcSizeDiff, n, size)
    THEN /\ size' = n
         /\ \E new \in [DBs -> 0..MaxSize] : CollectGarbage(new)
         /\ obs' = [obs EXCEPT !["gc"] =
                [in |-> n, old |-> size,
                 calls |-> <<Call("CollectGarbage", "all", 0)>>]]
    ELSE /\ UNCHANGED <<size, dbSize>>
         /\ obs' = [obs EXCEPT !["gc"] = [in |-> n, old |-> size, calls |-> <<>>]]

\* The test of evictionTask with > for <.
BelowThresholdInverted(alloc, memTotal) ==
    alloc * RatioDen > CacheEvictThreshold * memTotal

\* The test of evictionTask with <= for <.
BelowThresholdOrEqual(alloc, memTotal) ==
    alloc * RatioDen <= CacheEvictThreshold * memTotal

\* The test of evictionTask (line 217): used < s.config.CacheEvictThreshold,
\* with used = alloc / memTotal, compared as fractions.
BelowThreshold(alloc, memTotal) ==
    alloc * RatioDen < CacheEvictThreshold * memTotal

\* The calls of the closure evictionTask returns (lines 213-235) when
\* runtime.ReadMemStats reports alloc.
EvictionCalls(alloc, memTotal) ==
    IF BelowThreshold(alloc, memTotal)
    THEN <<>>
    ELSE <<Call("Evict", "trees", CacheEvictVolume),
           Call("WriteBack", "dicts", 0),
           Call("WriteBack", "dimensions", 0),
           Call("WriteBack", "segments", 0),
           Call("runtime.GC", "all", 0)>>

RECURSIVE WriteBackCalls(_)
\* writeBackTask (lines 238-244) over the list dbs.
WriteBackCalls(dbs) ==
    IF dbs = <<>> THEN <<>>
    ELSE (IF HasCache(Head(dbs)) THEN <<Call("WriteBack", Head(dbs), 0)>> ELSE <<>>)
         \o WriteBackCalls(Tail(dbs))

\* The test of the per-database GC closure (line 504).
BadgerGCTrigger(last, diffLimit, cur) ==
    last = 0 \/ diffLimit = 0 \/ cur - last > diffLimit

\* What an engine call returns: nil, badger.ErrNoRewrite, another error.
EngineResults == {"ok", "noRewrite", "err"}

\* The two db.runGC of the sources, by their lines: 396-414 returns false on
\* ErrNoRewrite (line 408), 529-547 returns reclaimed (line 541).
RunGCVariants == {"396-414", "529-547"}

\* What the engine answers to the successive RunValueLogGC calls of a pass.
EngineAnswers ==
    {a \in [1..MaxVlogCalls -> EngineResults] :
        \E i \in 1..MaxVlogCalls : a[i] # "ok"}

\* A call on the engine of d and its result.
EngineCall(op, d, arg, res) == [op |-> op, db |-> d, arg |-> arg, res |-> res]

\* A loop that goes on after ErrNoRewrite.
ContinuesUnlessError(res) == res # "err"

\* The switch of runGC (lines 536-545): only case nil continues the loop.
Continues(res) == res = "ok"

RECURSIVE ValueLogGCs(_, _, _)
\* The RunValueLogGC calls of the loop of runGC (lines 535-546) from the
\* i-th answer of the engine on.
ValueLogGCs(d, results, i) ==
    IF i > Len(results) THEN <<>>
    ELSE <<EngineCall("RunValueLogGC", d, DiscardRatio, results[i])>> \o
         (IF Continues(results[i]) THEN ValueLogGCs(d, results, i + 1)
          ELSE <<>>)

\* runGC that returns reclaimed whatever ended the loop.
RunGCResultKeepsReclaimed(variant, last, reclaimed) == reclaimed

\* What runGC returns when the loop ends on the result last with the named
\* result at reclaimed (lines 405-409, 538-542).
RunGCResult(variant, last, reclaimed) ==
    IF last = "noRewrite" /\ variant = "529-547" THEN reclaimed ELSE FALSE

\* db.runGC(discardRatio) on database d: the call, Flatten, whose error is
\* only logged (lines 532-534), the loop, the return.
RunGC(d, variant, flat, results) ==
    LET loop == ValueLogGCs(d, results, 1)
        reclaimed == \E i \in 1..Len(loop) : loop[i].res = "ok"
    IN  <<Call("runGC", d, DiscardRatio),
          EngineCall("Flatten", d, FlattenWorkers, flat)>> \o loop \o
        <<EngineCall("return", d, 0,
                     RunGCResult(variant, loop[Len(loop)].res, reclaimed))>>

\* A counter that counts only the passes that reclaimed.
CountAfterPassIfReclaimed(n, calls) ==
    IF calls[Len(calls)].res THEN n + 1 ELSE n

\* d.gcCount.Inc() after the pass with the calls calls (line 506).
CountAfterPass(n, calls) == n + 1

\* The closure newBadger hands to maintenanceTask (lines 502-509) for
\* database d; the pass is runGC of variant, the engine answers flat to
\* Flatten and results to the RunValueLogGC calls and is left at size after.
BadgerGC(d, after, variant, flat, results) ==
    IF BadgerGCTrigger(lastGC[d], gcSizeDiff, dbSize[d])
    THEN /\ after <= dbSize[d]
         /\ dbSize' = [dbSize EXCEPT ![d] = after]
         /\ gcCount' = [gcCount EXCEPT ![d] =
                          CountAfterPass(@, RunGC(d, variant, flat, results))]
         /\ lastGC' = [lastGC EXCEPT ![d] = after]
         /\ obs' = [obs EXCEPT ![d] =
                [in |-> dbSize[d], old |-> lastGC[d],
                 calls |-> RunGC(d, variant, flat, results)]]
    ELSE /\ after = dbSize[d]
         /\ UNCHANGED <<dbSize, gcCount, lastGC>>
         /\ obs' = [obs EXCEPT ![d] =
                [in |-> dbSize[d], old |-> lastGC[d], calls |-> <<>>]]


\* ---------------------------------------------- periodicTask, maintenanceTask

\* Every task started through periodicTask alone.
BodyPcNoLock(t) == "run"

\* Every task started through maintenanceTask, the metrics task included.
BodyPcLockAll(t) == "lock"

\* Where a task goes to run f: maintenanceTask wraps f in Lock/Unlock
\* (lines 181-185), periodicTask alone calls it directly.
BodyPc(t) == IF IsMaintenance(t) THEN "lock" ELSE "run"

\* The index of database d in openOrder.
OpenIndex(d) == CHOOSE i \in 1..Len(openOrder) : openOrder[i] = d

\* The deferred function of periodicTask (lines 190-193) and the return to
\* the caller: timer.Stop(), s.wg.Done().  The per-database task is called by
\* newBadger itself (line 502), which then returns to New.
TaskExit(t) ==
    /\ pc' = [pc EXCEPT ![t] = "exited"]
    /\ timer' = [timer EXCEPT ![t] = "stopped"]
    /\ wg' = wg - 1
    /\ newPc' = IF t \in DBs THEN OpenIndex(t) + 1 ELSE newPc
    /\ UNCHANGED entry

\* The task runs f once more, entered the way how tells.
TaskRun(t, how) ==
    /\ pc' = [pc EXCEPT ![t] = BodyPc(t)]
    /\ entry' = [entry EXCEPT ![t] = how]
    /\ UNCHANGED <<wg, newPc>>

\* periodicTask without the check of s.stop before the first run.
FirstNeverSeesStop == FALSE

\* The first select of periodicTask (lines 194-199) sees s.stop closed.
FirstSeesStop == stop

\* periodicTask from its start to its first select (lines 189-199).
PeriodicStart(t) ==
    /\ pc[t] = "spawned"
    /\ IF FirstSeesStop
       THEN TaskExit(t)
       ELSE /\ TaskRun(t, "first")
            /\ timer' = [timer EXCEPT ![t] = "armed"]
    /\ UNCHANGED <<maintenance, stop, obs, gcSizeDiff, storeVars, opened, closeVars,
                   auxVars>>

\* Lock that does not wait for the holder of the mutex.
CanLockAlways == TRUE

\* s.maintenance.Lock() returns only when nobody holds the mutex.
CanLock == maintenance = NoTask

\* s.maintenance.Lock() (line 182).
Lock(t) ==
    /\ pc[t] = "lock"
    /\ CanLock
    /\ maintenance' = t
    /\ pc' = [pc EXCEPT ![t] = "run"]
    /\ UNCHANGED <<entry, timer, stop, wg, obs, gcSizeDiff, storeVars, newVars,
                   closeVars,
                   auxVars>>

\* f of the task "gc" (line 184 calling the closure of watchDBSize).
RunWatchDBSize ==
    /\ pc["gc"] = "run"
    /\ WatchDBSize
    /\ answers' = IF dbSize' = dbSize THEN answers ELSE <<>>
    /\ pc' = [pc EXCEPT !["gc"] = "ret"]
    /\ UNCHANGED <<entry, timer, maintenance, stop, wg, gcSizeDiff, dbSizeGauge,
                   lastGC, gcCount, newVars, closeVars, cacheSize,
                   cacheSizeGauge, ctor, pfx>>

\* f of the task "evict" (line 184 calling the closure of evictionTask).
RunEviction ==
    /\ pc["evict"] = "run"
    /\ \E alloc \in 0..MemTotal :
          obs' = [obs EXCEPT !["evict"] =
                    [in |-> alloc, old |-> 0 - 1,
                     calls |-> EvictionCalls(alloc, MemTotal)]]
    /\ pc' = [pc EXCEPT !["evict"] = "ret"]
    /\ UNCHANGED <<entry, timer, maintenance, stop, wg, gcSizeDiff, storeVars,
                   newVars, closeVars,
                   auxVars>>

\* f of the task "writeBack" (line 184 calling writeBackTask).
RunWriteBack ==
    /\ pc["writeBack"] = "run"
    /\ obs' = [obs EXCEPT !["writeBack"] =
                 [in |-> 0 - 1, old |-> 0 - 1, calls |-> WriteBackCalls(databases)]]
    /\ pc' = [pc EXCEPT !["writeBack"] = "ret"]
    /\ UNCHANGED <<entry, timer, maintenance, stop, wg, gcSizeDiff, storeVars,
                   newVars, closeVars,
                   auxVars>>

\* f of the task "metrics": updateMetricsTask (lines 261-268).  It takes no
\* lock; obs records in its field in whether a task held s.maintenance while
\* it ran (1) or not (0).
RunUpdateMetrics ==
    /\ pc["metrics"] = "run"
    /\ dbSizeGauge' = [d \in DBs |-> dbSize[d]]
    /\ cacheSizeGauge' = [d \in DBs |->
                            IF HasCache(d) THEN cacheSize[d]
                            ELSE cacheSizeGauge[d]]
    /\ obs' = [obs EXCEPT !["metrics"] =
                 [in |-> IF maintenance # NoTask THEN 1 ELSE 0,
                  old |-> 0 - 1, calls |-> <<>>]]
    /\ pc' = [pc EXCEPT !["metrics"] = "ret"]
    /\ UNCHANGED <<entry, timer, maintenance, stop, wg, gcSizeDiff, size,
                   dbSize, lastGC, gcCount, newVars, closeVars, cacheSize,
                   answers, ctor, pfx>>

\* f of the GC task of database d (lines 503-508).
RunBadgerGC(d) ==
    /\ pc[d] = "run"
    /\ \E after \in 0..MaxSize, variant \in RunGCVariants,
          flat \in {"ok", "err"}, results \in EngineAnswers :
            BadgerGC(d, after, variant, flat, results)
    /\ answers' = IF dbSize' = dbSize THEN answers ELSE <<>>
    /\ pc' = [pc EXCEPT ![d] = "ret"]
    /\ UNCHANGED <<entry, timer, maintenance, stop, wg, gcSizeDiff, size,
                   dbSizeGauge, newVars, closeVars, cacheSize, cacheSizeGauge,
                   ctor, pfx>>

\* The holder of the mutex once t's deferred Unlock (line 183) has run.
Unlocked(t) == IF IsMaintenance(t) THEN NoTask ELSE maintenance

\* f returns: the deferred Unlock of maintenanceTask (line 183) and, after a
\* run the timer started, timer.Reset(interval) (line 206).
Return(t) ==
    /\ pc[t] = "ret"
    /\ maintenance' = Unlocked(t)
    /\ timer' = [timer EXCEPT ![t] = IF entry[t] = "timer" THEN "armed" ELSE @]
    /\ pc' = [pc EXCEPT ![t] = "loop"]
    /\ obs' = [obs EXCEPT ![t] = NoObs]
    /\ UNCHANGED <<entry, stop, wg, gcSizeDiff, storeVars, newVars, closeVars,
                   auxVars>>

\* The runtime delivers the expiry of t's timer on timer.C.
TimerFire(t) ==
    /\ timer[t] = "armed"
    /\ t \in DBs => gcCount[t] < MaxGcCount
    /\ timer' = [timer EXCEPT ![t] = "fired"]
    /\ UNCHANGED <<pc, entry, maintenance, stop, wg, obs, gcSizeDiff, storeVars,
                   newVars, closeVars,
                   auxVars>>

\* A select whose timer case can always proceed.
ReadyCasesTimerAlways(t) ==
    (IF stop THEN {"stop"} ELSE {}) \cup {"timer"}

\* The cases of the select of the loop (lines 201-205) that can proceed.
ReadyCases(t) ==
    (IF stop THEN {"stop"} ELSE {}) \cup (IF timer[t] = "fired" THEN {"timer"} ELSE {})

\* The select of the loop (lines 201-207): any case that can proceed is taken.
LoopSelect(t) ==
    /\ pc[t] = "loop"
    /\ \E c \in ReadyCases(t) :
          IF c = "stop"
          THEN TaskExit(t)
          ELSE /\ TaskRun(t, "timer")
               /\ timer' = [timer EXCEPT ![t] = "drained"]
    /\ UNCHANGED <<maintenance, stop, obs, gcSizeDiff, storeVars, opened, closeVars,
                   auxVars>>


\* ------------------------------------------------------------------- Close

\* Zero, for the counters of calls.
NoCalls == [d \in DBs |-> 0]

\* New has returned the orchestrator to its caller.
NewOk == Len(openOrder) + 2

\* close(s.stop) (line 132).
CloseStop ==
    /\ closePc = "idle"
    /\ newPc = NewOk
    /\ stop' = TRUE
    /\ closePc' = "wait"
    /\ UNCHANGED <<taskVars, gcSizeDiff, storeVars, newVars, gor, dclose,
                   closeCalls, flushes, engineCloses, closeErr, auxVars>>

\* Close that does not wait for the tasks.
WgWaitReturnsAtOnce == TRUE

\* s.wg.Wait() returns when the counter is zero (line 134).
WgWaitReturns == wg = 0

\* s.wg.Wait() returns and goDB starts one goroutine per database
\* (lines 134-156).
CloseWait ==
    /\ closePc = "wait"
    /\ WgWaitReturns
    /\ closePc' = "goDB"
    /\ gor' = [d \in DBs |-> "spawned"]
    /\ UNCHANGED <<taskVars, stop, gcSizeDiff, storeVars, newVars, dclose,
                   closeCalls, flushes, engineCloses, closeErr, auxVars>>

\* A function for goDB that closes every database.
ClosedInGoDBAll(d) == d \in DBs

\* A function for goDB that leaves out trees in place of dicts.
ClosedInGoDBButTrees(d) == d # "trees"

\* The test of the function Close hands to goDB (line 138).
ClosedInGoDB(d) == d # "dicts"

\* The goroutine goDB started for d runs f (lines 152-155, 137-141).
GoDBRun(d) ==
    /\ gor[d] = "spawned"
    /\ IF ClosedInGoDB(d)
       THEN /\ gor' = [gor EXCEPT ![d] = "closing"]
            /\ dclose' = [dclose EXCEPT ![d] = "flush"]
            /\ closeCalls' = [closeCalls EXCEPT ![d] = @ + 1]
       ELSE /\ gor' = [gor EXCEPT ![d] = "done"]
            /\ UNCHANGED <<dclose, closeCalls>>
    /\ UNCHANGED <<taskVars, stop, gcSizeDiff, storeVars, newVars, closePc,
                   flushes, engineCloses, closeErr, auxVars>>

\* d.close() up to the flush of the cache (lines 515-517).
DbCloseFlush(d) ==
    /\ dclose[d] = "flush"
    /\ flushes' = [flushes EXCEPT ![d] = IF HasCache(d) THEN @ + 1 ELSE @]
    /\ dclose' = [dclose EXCEPT ![d] = "engine"]
    /\ UNCHANGED <<taskVars, stop, gcSizeDiff, storeVars, newVars, closePc, gor,
                   closeCalls, engineCloses, closeErr, auxVars>>

\* d.close() that hands the error of the engine on to Close.
EngineErrorEscalatesAlways(err) == err

\* What d.close() does with the error of d.DB.Close(): it logs it, and
\* nothing of it leaves d.close(), which has no result (lines 514, 518-520).
EngineErrorEscalates(err) == FALSE

\* d.close() from d.DB.Close() to its return (lines 518-521); an error of the
\* engine is logged.  The call returns to the goroutine of goDB, which ends
\* (wg.Done, line 153), or to Close, which returns nil (line 143).  closePc
\* "failed" is Close ended by an error.
DbCloseEngine(d) ==
    /\ dclose[d] = "engine"
    /\ \E err \in BOOLEAN :
          /\ closeErr' = [closeErr EXCEPT ![d] = err]
          /\ closePc' = IF EngineErrorEscalates(err) THEN "failed"
                        ELSE IF d = "dicts" /\ closePc = "dicts" THEN "done"
                        ELSE closePc
    /\ engineCloses' = [engineCloses EXCEPT ![d] = @ + 1]
    /\ dclose' = [dclose EXCEPT ![d] = "returned"]
    /\ gor' = [gor EXCEPT ![d] = IF @ = "closing" THEN "done" ELSE @]
    /\ UNCHANGED <<taskVars, stop, gcSizeDiff, storeVars, newVars, closeCalls,
                   flushes, auxVars>>

\* goDB that does not wait for its goroutines.
GoDBWaitReturnsAtOnce == TRUE

\* wg.Wait() of goDB returns when every goroutine has ended (line 157).
GoDBWaitReturns == \A d \in DBs : gor[d] = "done"

\* goDB returns and Close calls s.dicts.close() (lines 157, 142).
CloseDicts ==
    /\ closePc = "goDB"
    /\ GoDBWaitReturns
    /\ closePc' = "dicts"
    /\ dclose' = [dclose EXCEPT !["dicts"] = "flush"]
    /\ closeCalls' = [closeCalls EXCEPT !["dicts"] = @ + 1]
    /\ UNCHANGED <<taskVars, stop, gcSizeDiff, storeVars, newVars, gor, flushes,
                   engineCloses, closeErr, auxVars>>

\* ------------------------------------------------------------- environment

\* The engine of d grows on disk: a foreground write, a write-back of the
\* cache, or the engine's own background work.
Write(d) ==
    /\ d \in opened
    /\ engineCloses[d] = 0
    /\ dbSize[d] < MaxSize
    /\ dbSize' = [dbSize EXCEPT ![d] = @ + 1]
    /\ answers' = <<>>
    /\ UNCHANGED <<taskVars, stop, gcSizeDiff, size, dbSizeGauge, lastGC,
                   gcCount, newVars, closeVars, cacheSize, cacheSizeGauge,
                   ctor, pfx>>

\* --------------------------------------------------------------------- New

\* New has returned an error.
NewErr == Len(openOrder) + 3

\* New (lines 90-127).  While newPc is an index of openOrder, New calls
\* newBadger for that database (lines 462-511): the engine is opened, or
\* newBadger returns the error and so does New; with the engine open,
\* newBadger calls s.maintenanceTask itself (line 502), so the GC task of the
\* database runs in the constructor, which goes on when periodicTask returns
\* (TaskExit).  After the last database: labels.New, migrate and getMemTotal
\* (lines 107-117), either of which can fail, and the start of the four
\* tasks (lines 121-125).
New ==
    /\ newPc \in 1..(Len(openOrder) + 1)
    /\ IF newPc <= Len(openOrder)
       THEN /\ pc[openOrder[newPc]] = "off"
            /\ \E ok \in BOOLEAN :
                  IF ok
                  THEN /\ opened' = opened \cup {openOrder[newPc]}
                       /\ pc' = [pc EXCEPT ![openOrder[newPc]] = "spawned"]
                       /\ newPc' = newPc
                  ELSE /\ newPc' = NewErr
                       /\ UNCHANGED <<opened, pc>>
            /\ wg' = wg
       ELSE /\ \E ok \in BOOLEAN :
                  IF ok
                  THEN /\ wg' = wg + WgAdd
                       /\ pc' = [t \in Tasks |->
                                  IF t \in OrchTasks THEN "spawned" ELSE pc[t]]
                       /\ newPc' = NewOk
                  ELSE /\ newPc' = NewErr
                       /\ UNCHANGED <<wg, pc>>
            /\ opened' = opened
    /\ UNCHANGED <<entry, timer, maintenance, stop, obs, gcSizeDiff, storeVars,
                   closeVars,
                   auxVars>>

\* New that launches the tasks without the result of getMemTotal.
LaunchesWithoutMemTotal(c) == c.migrate = "ok"

\* New reaches the launch of the tasks (line 121) only past the two returns
\* on error of migrate and getMemTotal (lines 108-110, 114-116).
Launches(c) == c.migrate = "ok" /\ c.mem = "ok"

\* New (lines 90-127) over a database wrapper that returns to it: the one of
\* lines 351-388 (openBadgerDB, newDB), which attaches no task, returns the
\* database or the error of MkdirAll / badger.Open.  One step per database
\* in the order of lines 90-104, then labels.New, migrate, getMemTotal and
\* the launch of the four tasks.  No return on error closes a database.
NewOverNewDB ==
    /\ newPc \in 1..(Len(openOrder) + 1)
    /\ IF newPc <= Len(openOrder)
       THEN /\ \E ok \in BOOLEAN :
                  IF ok
                  THEN /\ opened' = opened \cup {openOrder[newPc]}
                       /\ newPc' = newPc + 1
                  ELSE /\ newPc' = NewErr
                       /\ opened' = opened
            /\ UNCHANGED <<pc, wg, ctor>>
       ELSE /\ \E migrateOk, memOk \in BOOLEAN :
                  /\ ctor' = [migrate |-> IF migrateOk THEN "ok" ELSE "err",
                              mem |-> IF ~migrateOk THEN "none"
                                      ELSE IF memOk THEN "ok" ELSE "err"]
                  /\ IF Launches(ctor')
                     THEN /\ wg' = wg + WgAdd
                          /\ pc' = [t \in Tasks |->
                                     IF t \in OrchTasks THEN "spawned"
                                     ELSE pc[t]]
                          /\ newPc' = NewOk
                     ELSE /\ newPc' = NewErr
                          /\ UNCHANGED <<wg, pc>>
            /\ opened' = opened
    /\ UNCHANGED <<entry, timer, maintenance, stop, obs, gcSizeDiff, storeVars,
                   closeVars, cacheSize, cacheSizeGauge, answers,
                   pfx>>

\* ---------------------------------------------------------------- prefixes

\* The prefix constants (lines 444-449) as strings of bytes.
segmentPrefix == <<"s", ":">>

treePrefix == <<"t", ":">>

dictionaryPrefix == <<"d", ":">>

dimensionPrefix == <<"i", ":">>

\* The prefixes newBadger is called with for the databases with a cache.
Prefixes == {segmentPrefix, treePrefix, dictionaryPrefix, dimensionPrefix}

\* The bytes a key is made of: bytes of the prefixes and one of none.
KeyBytes == {"s", "t", ":", "x"}

\* The keys of at most MaxKeyLen bytes.
Keys == UNION {[1..n -> KeyBytes] : n \in 0..MaxKeyLen}

\* prefix.key (line 453): the bytes of p followed by those of k.
key(p, k) == p \o k

\* trim that accepts a key as long as the prefix.
trimAtLeast(p, k) ==
    IF Len(k) >= Len(p)
    THEN [isNil |-> FALSE, bytes |-> SubSeq(k, Len(p) + 1, Len(k)), ok |-> TRUE]
    ELSE [isNil |-> TRUE, bytes |-> <<>>, ok |-> FALSE]

\* prefix.trim (lines 455-460): k[len(p):] and true for a key longer than
\* the prefix, nil and false otherwise; the bytes cut off are not compared
\* with p.
trim(p, k) ==
    IF Len(k) > Len(p)
    THEN [isNil |-> FALSE, bytes |-> SubSeq(k, Len(p) + 1, Len(k)), ok |-> TRUE]
    ELSE [isNil |-> TRUE, bytes |-> <<>>, ok |-> FALSE]

\* No prefix function has been applied.
NoPfx == [p |-> <<>>, k |-> <<>>, buf |-> <<>>, keyed |-> FALSE,
          trimmed |-> FALSE,
          out |-> [isNil |-> TRUE, bytes |-> <<>>, ok |-> FALSE]]

\* A caller makes the key of its database out of k: buf = p.key(k).
PrefixKey ==
    /\ ~pfx.keyed
    /\ ~pfx.trimmed
    /\ pfx' = [pfx EXCEPT !.buf = key(pfx.p, pfx.k), !.keyed = TRUE]
    /\ UNCHANGED <<taskVars, stop, gcSizeDiff, storeVars, newVars, closeVars,
                   cacheSize, cacheSizeGauge, answers, ctor>>

\* A caller trims the bytes at hand, a key of the engine or the bytes it was
\* given: out = p.trim(buf).
PrefixTrim ==
    /\ ~pfx.trimmed
    /\ pfx' = [pfx EXCEPT !.out = trim(pfx.p, pfx.buf), !.trimmed = TRUE]
    /\ UNCHANGED <<taskVars, stop, gcSizeDiff, storeVars, newVars, closeVars,
                   cacheSize, cacheSizeGauge, answers, ctor>>

\* ----------------------------------------------------------------- queries

\* The result of a call of DiskUsage or CacheStats, and whether a task held
\* s.maintenance when the call was made and returned.
Answer(kind, res) == [kind |-> kind, res |-> res, held |-> maintenance # NoTask]

\* The results kept for comparison: the latest two of consecutive calls of
\* the same method with no change of a size or of a cache in between.
Record(a) ==
    IF answers # <<>> /\ answers[Len(answers)].kind = a.kind
    THEN <<answers[Len(answers)], a>>
    ELSE <<a>>

\* A caller of Storage.DiskUsage() (lines 291-297): no lock is taken, nothing
\* but the map of the call is written.
CallDiskUsage ==
    /\ newPc = NewOk
    /\ answers' = Record(Answer("DiskUsage", DiskUsage))
    /\ UNCHANGED <<taskVars, stop, gcSizeDiff, storeVars, newVars, closeVars,
                   cacheSize, cacheSizeGauge, ctor, pfx>>

\* A caller of Storage.CacheStats() (lines 299-307).
CallCacheStats ==
    /\ newPc = NewOk
    /\ answers' = Record(Answer("CacheStats", CacheStats))
    /\ UNCHANGED <<taskVars, stop, gcSizeDiff, storeVars, newVars, closeVars,
                   cacheSize, cacheSizeGauge, ctor, pfx>>

\* The cache of d takes one more entry (a foreground Put or a lookup that
\* loads from the engine).
CachePut(d) ==
    /\ d \in opened
    /\ HasCache(d)
    /\ cacheSize[d] < MaxCache
    /\ cacheSize' = [cacheSize EXCEPT ![d] = @ + 1]
    /\ answers' = <<>>
    /\ UNCHANGED <<taskVars, stop, gcSizeDiff, storeVars, newVars, closeVars,
                   cacheSizeGauge, ctor, pfx>>

\* ---------------------------------------------------------- specifications

\* What is the same in every initial state: nothing has run.
InitCommon ==
    /\ entry = [t \in Tasks |-> "none"]
    /\ timer = [t \in Tasks |-> "none"]
    /\ maintenance = NoTask
    /\ stop = FALSE
    /\ obs = [t \in Tasks |-> NoObs]
    /\ size = 0
    /\ dbSizeGauge = [d \in DBs |-> 0]
    /\ lastGC = [d \in DBs |-> 0]
    /\ gcCount = [d \in DBs |-> 0]
    /\ closePc = "idle"
    /\ gor = [d \in DBs |-> "none"]
    /\ dclose = [d \in DBs |-> "none"]
    /\ closeCalls = NoCalls
    /\ flushes = NoCalls
    /\ engineCloses = NoCalls
    /\ closeErr = [d \in DBs |-> FALSE]
    /\ cacheSize = [d \in DBs |-> 0]
    /\ cacheSizeGauge = [d \in DBs |-> 0]
    /\ answers = <<>>
    /\ ctor = NoCtor

\* New as written in lines 63-128 has returned: the five databases are open
\* and the four tasks have been launched (lines 121-125).
Init ==
    /\ InitCommon
    /\ pfx = NoPfx
    /\ pc = [t \in Tasks |-> IF t \in OrchTasks THEN "spawned" ELSE "off"]
    /\ wg = WgAdd
    /\ gcSizeDiff \in {0, GcSizeDiff}
    /\ dbSize = [d \in DBs |-> 0]
    /\ newPc = NewOk
    /\ opened = DBs

Next ==
    \/ \E t \in OrchTasks : PeriodicStart(t)
    \/ \E t \in OrchTasks : Lock(t)
    \/ RunWatchDBSize
    \/ RunEviction
    \/ RunWriteBack
    \/ RunUpdateMetrics
    \/ \E t \in OrchTasks : Return(t)
    \/ \E t \in OrchTasks : TimerFire(t)
    \/ \E t \in OrchTasks : LoopSelect(t)
    \/ CloseStop
    \/ CloseWait
    \/ \E d \in DBs : GoDBRun(d)
    \/ \E d \in DBs : DbCloseFlush(d)
    \/ \E d \in DBs : DbCloseEngine(d)
    \/ CloseDicts

Spec == Init /\ [][Next]_vars

\* The size-triggered GC task alone under a write load: the steps of the
\* task "gc" and the writes to the databases.  size and dbSize are read and
\* written by no other task.
NextGC ==
    \/ PeriodicStart("gc")
    \/ Lock("gc")
    \/ RunWatchDBSize
    \/ Return("gc")
    \/ TimerFire("gc")
    \/ LoopSelect("gc")
    \/ \E d \in DBs : Write(d)

SpecGC == Init /\ [][NextGC]_vars

\* The process calls New: nothing is open, no task runs.
InitNew ==
    /\ InitCommon
    /\ pfx = NoPfx
    /\ pc = [t \in Tasks |-> "off"]
    /\ wg = 0
    /\ gcSizeDiff \in {0, GcSizeDiff}
    /\ dbSize = [d \in DBs |-> 0]
    /\ newPc = 1
    /\ opened = {}

\* The constructor: New, the GC task newBadger runs for the database it has
\* opened, and the growth of the opened engines on disk.
NextNew ==
    \/ New
    \/ \E d \in DBs : PeriodicStart(d)
    \/ \E d \in DBs : Lock(d)
    \/ \E d \in DBs : RunBadgerGC(d)
    \/ \E d \in DBs : Return(d)
    \/ \E d \in DBs : TimerFire(d)
    \/ \E d \in DBs : LoopSelect(d)
    \/ \E d \in DBs : Write(d)

SpecNew == InitNew /\ [][NextNew]_vars

\* The constructor under a scheduler that keeps running what can run: the
\* goroutine that called New is never starved while one of its steps is
\* possible.
SpecNewFair == SpecNew /\ WF_vars(NextNew)

\* The constructor over a wrapper that returns, and the four tasks it
\* launches.
NextCtor ==
    \/ NewOverNewDB
    \/ \E t \in OrchTasks : PeriodicStart(t)
    \/ \E t \in OrchTasks : Lock(t)
    \/ RunWatchDBSize
    \/ RunEviction
    \/ RunWriteBack
    \/ RunUpdateMetrics
    \/ \E t \in OrchTasks : Return(t)
    \/ \E t \in OrchTasks : TimerFire(t)
    \/ \E t \in OrchTasks : LoopSelect(t)

SpecCtor == InitNew /\ [][NextCtor]_vars

\* The eviction and the write-back tasks under a write load.
NextWB ==
    \/ \E t \in {"evict", "writeBack"} : PeriodicStart(t)
    \/ \E t \in {"evict", "writeBack"} : Lock(t)
    \/ RunEviction
    \/ RunWriteBack
    \/ \E t \in {"evict", "writeBack"} : Return(t)
    \/ \E t \in {"evict", "writeBack"} : TimerFire(t)
    \/ \E t \in {"evict", "writeBack"} : LoopSelect(t)
    \/ \E d \in DBs : Write(d)

SpecWB == Init /\ [][NextWB]_vars

\* The callers of DiskUsage and CacheStats while the engines grow and the
\* caches fill.
NextQuery ==
    \/ CallDiskUsage
    \/ CallCacheStats
    \/ \E d \in DBs : Write(d)
    \/ \E d \in DBs : CachePut(d)

SpecQuery == Init /\ [][NextQuery]_vars

\* The tasks beside which the readers are observed.
ReadTasks == {"gc", "writeBack", "metrics"}

\* The readers beside maintenance tasks: the metrics task and the callers of
\* DiskUsage and CacheStats, with two of the tasks that take s.maintenance.
NextRead ==
    \/ \E t \in ReadTasks : PeriodicStart(t)
    \/ \E t \in ReadTasks : Lock(t)
    \/ RunWatchDBSize
    \/ RunWriteBack
    \/ RunUpdateMetrics
    \/ \E t \in ReadTasks : Return(t)
    \/ \E t \in ReadTasks : TimerFire(t)
    \/ \E t \in ReadTasks : LoopSelect(t)
    \/ CallDiskUsage
    \/ CallCacheStats

SpecRead == Init /\ [][NextRead]_vars

\* Every task of the sources where it runs: the four tasks of the
\* orchestrator and Close after construction, the GC task of a database
\* inside newBadger.
InitAllTasks == Init \/ InitNew

NextAllTasks ==
    \/ Next
    \/ New
    \/ \E d \in DBs : PeriodicStart(d)
    \/ \E d \in DBs : Lock(d)
    \/ \E d \in DBs : RunBadgerGC(d)
    \/ \E d \in DBs : Return(d)
    \/ \E d \in DBs : TimerFire(d)
    \/ \E d \in DBs : LoopSelect(d)

SpecAllTasks == InitAllTasks /\ [][NextAllTasks]_vars

\* The store after construction with a prefix and the bytes a caller holds.
InitPrefix ==
    /\ InitCommon
    /\ pc = [t \in Tasks |-> IF t \in OrchTasks THEN "spawned" ELSE "off"]
    /\ wg = WgAdd
    /\ gcSizeDiff \in {0, GcSizeDiff}
    /\ dbSize = [d \in DBs |-> 0]
    /\ newPc = NewOk
    /\ opened = DBs
    /\ \E p \in Prefixes, k \in Keys :
          pfx = [NoPfx EXCEPT !.p = p, !.k = k, !.buf = k]

\* The two functions of a prefix applied to the bytes.
NextPrefix ==
    \/ PrefixKey
    \/ PrefixTrim

SpecPrefix == InitPrefix /\ [][NextPrefix]_vars

\* The writers of the baselines, each where it runs: the aggregate GC task
\* after construction, the GC task of a database inside newBadger.
InitBaselines == Init \/ InitNew

NextBaselines == NextGC \/ NextNew

SpecBaselines == InitBaselines /\ [][NextBaselines]_vars

\* ------------------------------------------------------------------ claims

RECURSIVE CountOp(_, _)
\* The number of calls of op in the sequence calls.
CountOp(calls, op) ==
    IF calls = <<>> THEN 0
    ELSE (IF Head(calls).op = op THEN 1 ELSE 0) + CountOp(Tail(calls), op)

\* The bodies New starts through maintenanceTask.
OrchMaintenance == {"gc", "evict", "writeBack"}

\* Task t is between the Lock and the Unlock of maintenanceTask.
Executing(t) == pc[t] \in {"run", "ret"}

\* C1: at most one of the bodies of the size-triggered GC, the eviction and
\* the write-back executes at a time, and a body executes only while its task
\* holds the maintenance mutex.
C1_MaintenanceExclusive ==
    /\ Cardinality({t \in OrchMaintenance : Executing(t)}) <= 1
    /\ \A t \in OrchMaintenance : Executing(t) => maintenance = t

\* One body executes while the two other maintenance tasks wait for the mutex.
C1_Witness ==
    /\ Executing("gc")
    /\ pc["evict"] = "lock"
    /\ pc["writeBack"] = "lock"

\* C2: when Close has started to close dicts, the close of each of main,
\* dimensions, segments and trees has returned, whether or not the engine
\* reported an error.
C2_DictsClosedLast ==
    closeCalls["dicts"] > 0 =>
        \A d \in DBs \ {"dicts"} : closeCalls[d] > 0 /\ dclose[d] = "returned"

\* The close of dicts has started after the engine of another database failed
\* to close.
C2_Witness ==
    /\ dclose["dicts"] = "flush"
    /\ closeErr["trees"]
    /\ ~closeErr["main"]

\* C3: once Close has passed its wait for the tasks (so before any database is
\* closed, and still when Close has returned) every periodic task has exited.
C3_TasksExitedBeforeClose ==
    (closePc \in {"goDB", "dicts", "done"} \/ \E d \in DBs : closeCalls[d] > 0)
        => \A t \in Tasks : pc[t] \in {"off", "exited"}

\* Close has returned after tasks that had been running on their timers.
C3_Witness ==
    /\ closePc = "done"
    /\ \A t \in OrchTasks : pc[t] = "exited" /\ entry[t] = "timer"

\* C4, as claimed: once s.stop is closed no task starts its body again.
C4_NoBodyAfterStop ==
    [][\A t \in Tasks :
          (stop /\ pc[t] \in {"spawned", "loop"}) => pc'[t] \notin {"lock", "run"}]_vars

\* C4, amended: once s.stop is closed a task starts its body again only from
\* the select of its loop and only when its timer has expired; a task in the
\* select whose timer has not expired exits.
C4_BodyAfterStopNeedsExpiry ==
    [][\A t \in Tasks :
          /\ (stop /\ pc[t] \in {"spawned", "loop"} /\ pc'[t] \in {"lock", "run"})
                => (pc[t] = "loop" /\ timer[t] = "fired")
          /\ (stop /\ pc[t] = "loop" /\ timer[t] # "fired" /\ pc'[t] # pc[t])
                => pc'[t] = "exited"]_vars

\* s.stop is closed and the timer has expired when the task selects.
C4_Witness ==
    /\ stop
    /\ pc["writeBack"] = "loop"
    /\ timer["writeBack"] = "fired"

\* C5: the step a task takes at its start runs the body at once, the timer
\* just created and not expired, unless s.stop is closed, in which case the
\* task exits without having run the body; a task starts once, its body is
\* run "at start" only by that step, and a task that has exited stays so.
C5_FirstRun ==
    [][\A t \in Tasks :
          /\ (pc[t] = "spawned" /\ pc'[t] # "spawned") =>
                IF stop
                THEN pc'[t] = "exited" /\ entry'[t] = "none"
                ELSE pc'[t] = BodyPc(t) /\ entry'[t] = "first" /\ timer'[t] = "armed"
          /\ (pc[t] # "spawned" /\ pc[t] # "off") => pc'[t] # "spawned"
          /\ (entry'[t] = "first" /\ entry[t] # "first") => pc[t] = "spawned"
          /\ pc[t] = "exited" => (pc'[t] = "exited" /\ entry'[t] = entry[t])]_vars

\* One task has exited without a run, another is in the run of its start.
C5_Witness ==
    /\ pc["metrics"] = "exited"
    /\ entry["metrics"] = "none"
    /\ pc["evict"] = "run"
    /\ entry["evict"] = "first"
    /\ timer["evict"] = "armed"

\* C6: when Close has returned the four tasks have exited and close has been
\* called exactly once on each of the five databases, and has returned.
C6_CloseReturns ==
    closePc = "done" =>
        /\ \A t \in OrchTasks : pc[t] = "exited"
        /\ \A d \in DBs : closeCalls[d] = 1 /\ dclose[d] = "returned"

\* Close has returned; one engine failed to close.
C6_Witness ==
    /\ closePc = "done"
    /\ closeErr["segments"]

\* C7: a run of the body of the size-triggered GC measures n, the sum of the
\* sizes of the databases; with a threshold T > 0 it makes exactly one full
\* pass if n - baseline > T and none if n - baseline <= T; with T = 0 it makes
\* one pass.
C7_TriggerRule ==
    [][(pc["gc"] = "run" /\ pc'["gc"] = "ret") =>
          LET n == SumSeq(dbSize, databases)
              passes == CountOp(obs'["gc"].calls, "CollectGarbage")
          IN  /\ obs'["gc"].in = n
              /\ obs'["gc"].old = size
              /\ (gcSizeDiff > 0 /\ n - size > gcSizeDiff) => passes = 1
              /\ (gcSizeDiff > 0 /\ n - size <= gcSizeDiff) => passes = 0
              /\ gcSizeDiff = 0 => passes = 1]_vars

\* A tick of the timer has found the store grown by more than T > 0 over a
\* baseline that an earlier pass had set, and has made the pass.
C7_Witness ==
    /\ pc["gc"] = "ret"
    /\ entry["gc"] = "timer"
    /\ gcSizeDiff > 0
    /\ obs["gc"].old > 0
    /\ obs["gc"].in - obs["gc"].old > gcSizeDiff
    /\ CountOp(obs["gc"].calls, "CollectGarbage") = 1

\* C8: a run of the body of the size-triggered GC that makes the pass sets the
\* baseline to the aggregate size it measured; a run that does not make the
\* pass, and every other step, leaves the baseline as it was.  From a baseline
\* of 0 a measured size of T + 1 makes the pass and the baseline T + 1.
C8_Baseline ==
    [][LET n == SumSeq(dbSize, databases) IN
          IF pc["gc"] = "run" /\ pc'["gc"] = "ret"
          THEN /\ size' = IF gcSizeDiff = 0 \/ n - size > gcSizeDiff
                          THEN n ELSE size
               /\ (gcSizeDiff > 0 /\ size = 0 /\ n = gcSizeDiff + 1) =>
                     /\ size' = gcSizeDiff + 1
                     /\ CountOp(obs'["gc"].calls, "CollectGarbage") = 1
          ELSE size' = size]_vars

\* The scenario: baseline 0, measured size T + 1, pass made, baseline T + 1.
C8_Witness ==
    /\ pc["gc"] = "ret"
    /\ gcSizeDiff > 0
    /\ obs["gc"].old = 0
    /\ obs["gc"].in = gcSizeDiff + 1
    /\ size = gcSizeDiff + 1
    /\ CountOp(obs["gc"].calls, "CollectGarbage") = 1

\* C9, as claimed: the first run of the GC task of a database makes a reclaim
\* pass; a later run makes one only if the threshold is zero or the size of
\* the database exceeds its baseline by more than the threshold.
C9_ReclaimRule ==
    \A d \in DBs :
        pc[d] = "ret" =>
            /\ entry[d] = "first" => CountOp(obs[d].calls, "runGC") = 1
            /\ (entry[d] = "timer" /\ CountOp(obs[d].calls, "runGC") > 0) =>
                  (gcSizeDiff = 0 \/ obs[d].in - obs[d].old > gcSizeDiff)

\* C10: a run of the eviction body that reads a memory ratio below the
\* threshold calls Evict and WriteBack on no cache.
C10_NoEvictionBelow ==
    (pc["evict"] = "ret" /\
     obs["evict"].in * RatioDen < CacheEvictThreshold * MemTotal) =>
        /\ CountOp(obs["evict"].calls, "Evict") = 0
        /\ CountOp(obs["evict"].calls, "WriteBack") = 0

\* A tick of the eviction timer has read a ratio above zero and below the
\* threshold.
C10_Witness ==
    /\ pc["evict"] = "ret"
    /\ entry["evict"] = "timer"
    /\ obs["evict"].in > 0
    /\ obs["evict"].in * RatioDen < CacheEvictThreshold * MemTotal
    /\ obs["evict"].calls = <<>>

\* The positions of the calls of op on database d in the sequence calls.
CallsAt(calls, op, d) ==
    {i \in 1..Len(calls) : calls[i].op = op /\ calls[i].db = d}

\* C11: a run of the eviction body that reads a memory ratio at or above the
\* threshold makes exactly one Evict call, on the cache of trees and with the
\* configured percentage, and exactly one WriteBack call on each of dicts,
\* dimensions and segments; the Evict call comes before the three WriteBack
\* calls.
C11_EvictThenWriteBack ==
    (pc["evict"] = "ret" /\
     obs["evict"].in * RatioDen >= CacheEvictThreshold * MemTotal) =>
        LET calls == obs["evict"].calls IN
        /\ CountOp(calls, "Evict") = 1
        /\ Cardinality(CallsAt(calls, "Evict", "trees")) = 1
        /\ \A i \in CallsAt(calls, "Evict", "trees") :
              calls[i].arg = CacheEvictVolume
        /\ CountOp(calls, "WriteBack") = 3
        /\ \A d \in {"dicts", "dimensions", "segments"} :
              /\ Cardinality(CallsAt(calls, "WriteBack", d)) = 1
              /\ \A i \in CallsAt(calls, "Evict", "trees") :
                    \A j \in CallsAt(calls, "WriteBack", d) : i < j

\* A tick of the eviction timer has read a ratio equal to the threshold and
\* made its calls.
C11_Witness ==
    /\ pc["evict"] = "ret"
    /\ entry["evict"] = "timer"
    /\ obs["evict"].in * RatioDen = CacheEvictThreshold * MemTotal
    /\ CountOp(obs["evict"].calls, "Evict") = 1

\* C12: a run of the write-back body makes exactly one WriteBack call on each
\* of dimensions, segments, dicts and trees and none on main, whatever the
\* sizes of the databases are.
C12_WriteBackAll ==
    pc["writeBack"] = "ret" =>
        LET calls == obs["writeBack"].calls IN
        /\ \A d \in {"dimensions", "segments", "dicts", "trees"} :
              Cardinality(CallsAt(calls, "WriteBack", d)) = 1
        /\ CallsAt(calls, "WriteBack", "main") = {}
        /\ Len(calls) = 4

\* A tick of the write-back timer has made its calls while the databases
\* have different sizes.
C12_Witness ==
    /\ pc["writeBack"] = "ret"
    /\ entry["writeBack"] = "timer"
    /\ dbSize["trees"] = MaxSize
    /\ dbSize["dicts"] = 0
    /\ Len(obs["writeBack"].calls) = 4

\* C13: the metrics task never waits for or holds the maintenance mutex, and
\* no step of the metrics task and no call of DiskUsage or CacheStats changes
\* the holder of the mutex, a size, a cache, a baseline, a reclaim counter or
\* the set of open databases; such steps happen while a maintenance body
\* holds the mutex.
C13_ReadersTakeNoLock ==
    /\ [](pc["metrics"] # "lock" /\ maintenance # "metrics")
    /\ [][(pc'["metrics"] # pc["metrics"] \/ answers' # answers) =>
            UNCHANGED <<maintenance, size, dbSize, lastGC, gcCount, cacheSize,
                        opened, flushes, engineCloses>>]_vars

\* The metrics body has run and CacheStats has returned, both while a
\* maintenance body held the mutex, and the body still holds it.
C13_Witness ==
    /\ pc["metrics"] = "ret"
    /\ obs["metrics"].in = 1
    /\ maintenance \in {"gc", "writeBack"}
    /\ pc[maintenance] = "run"
    /\ answers # <<>>
    /\ answers[Len(answers)].kind = "CacheStats"
    /\ answers[Len(answers)].held

C17_EngineErrorNotEscalated ==
    /\ closePc # "failed"
    /\ \A d \in DBs : closeErr[d] => engineCloses[d] = 1
    /\ closePc = "done" =>
          \A d \in DBs : closeCalls[d] = 1 /\ engineCloses[d] = 1

\* Close has returned although the engine of every database failed to close.
C17_Witness ==
    /\ closePc = "done"
    /\ \A d \in DBs : closeErr[d] /\ engineCloses[d] = 1

\* C18: during Close the cache of each of dimensions, segments, dicts and
\* trees is flushed once and never more, before the engine of that database
\* is closed; main has no flush; the cache of trees is flushed while the
\* engine of dicts is still open.
C18_FlushBeforeEngineClose ==
    /\ [](/\ flushes["main"] = 0
          /\ \A d \in {"dimensions", "segments", "dicts", "trees"} :
                /\ flushes[d] <= 1
                /\ engineCloses[d] > 0 => flushes[d] = 1
                /\ closePc = "done" => flushes[d] = 1)
    /\ [][flushes'["trees"] # flushes["trees"] =>
            (engineCloses["dicts"] = 0 /\ engineCloses'["dicts"] = 0)]_vars

\* The cache of trees has been flushed and the engine of trees is about to
\* be closed, while dicts has not been touched and another engine is closed.
C18_Witness ==
    /\ flushes["trees"] = 1
    /\ dclose["trees"] = "engine"
    /\ engineCloses["trees"] = 0
    /\ flushes["dicts"] = 0
    /\ engineCloses["dicts"] = 0
    /\ engineCloses["segments"] = 1

C20_BaselinesUnderMutex ==
    [][/\ size' # size =>
            (pc["gc"] = "run" /\ maintenance = "gc" /\ maintenance' = "gc")
       /\ \A d \in DBs :
            lastGC'[d] # lastGC[d] =>
                (pc[d] = "run" /\ maintenance = d /\ maintenance' = d)]_vars

\* The GC task of main has just written the baseline of main, above zero,
\* and holds the mutex.
C20_Witness ==
    /\ pc["main"] = "ret"
    /\ maintenance = "main"
    /\ lastGC["main"] > 0
    /\ lastGC["main"] # obs["main"].old

\* The GC task of database d has run its body and the body has made a
\* reclaim pass.
PassDone(d) == pc[d] = "ret" /\ CountOp(obs[d].calls, "runGC") = 1

\* C21: a reclaim pass calls Flatten exactly once, first, and then
\* RunValueLogGC at least once, whatever Flatten returned; every
\* RunValueLogGC call but the last returned success, the last returned
\* ErrNoRewrite or an error, and the return of the pass follows it with no
\* engine call in between.
C21_PassShape ==
    \A d \in DBs :
        PassDone(d) =>
            LET calls == obs[d].calls
                n == Len(calls)
            IN  /\ n >= 4
                /\ calls[1].op = "runGC"
                /\ calls[2].op = "Flatten"
                /\ CountOp(calls, "Flatten") = 1
                /\ calls[n].op = "return"
                /\ \A i \in 3..(n - 1) :
                      /\ calls[i].op = "RunValueLogGC"
                      /\ i < n - 1 => calls[i].res = "ok"
                /\ calls[n - 1].res \in {"noRewrite", "err"}

\* A pass whose Flatten failed has made two successful RunValueLogGC calls
\* and ended on ErrNoRewrite.
C21_Witness ==
    /\ PassDone("main")
    /\ obs["main"].calls[2].res = "err"
    /\ Len(obs["main"].calls) = 6
    /\ obs["main"].calls[5].res = "noRewrite"

\* C22: a reclaim pass whose last RunValueLogGC call returned an error other
\* than ErrNoRewrite returns false, also after successful calls; the task
\* that ran it goes back to its loop with its timer set and does not exit.
C22_ErrorPassReturnsFalse ==
    /\ [](\A d \in DBs :
            (PassDone(d) /\
             obs[d].calls[Len(obs[d].calls) - 1].res = "err") =>
                obs[d].calls[Len(obs[d].calls)].res = FALSE)
    /\ [][\A d \in DBs :
            (PassDone(d) /\
             obs[d].calls[Len(obs[d].calls) - 1].res = "err") =>
                /\ pc'[d] \in {"ret", "loop"}
                /\ pc'[d] = "loop" => timer'[d] \in {"armed", "fired"}]_vars

\* A pass started by a tick has ended on an error after a successful call.
C22_Witness ==
    /\ PassDone("main")
    /\ entry["main"] = "timer"
    /\ obs["main"].calls[3].res = "ok"
    /\ obs["main"].calls[4].res = "err"
    /\ obs["main"].calls[5].res = FALSE

\* C23: a run of the body of the GC task of a database that makes a reclaim
\* pass adds exactly one to the reclaim counter of the database and sets its
\* baseline to the size of the database after the pass; a run that makes no
\* pass, and every other step, leaves both unchanged.
C23_CounterAndBaseline ==
    [][\A d \in DBs :
          IF pc[d] = "run" /\ pc'[d] = "ret" /\
             CountOp(obs'[d].calls, "runGC") = 1
          THEN /\ gcCount'[d] = gcCount[d] + 1
               /\ lastGC'[d] = dbSize'[d]
          ELSE /\ gcCount'[d] = gcCount[d]
               /\ lastGC'[d] = lastGC[d]]_vars

\* A second pass has reclaimed nothing and has been counted; the baseline is
\* the size of the database, above zero.
C23_Witness ==
    /\ PassDone("main")
    /\ gcCount["main"] = 2
    /\ obs["main"].calls[3].res = "noRewrite"
    /\ obs["main"].calls[4].res = FALSE
    /\ lastGC["main"] = dbSize["main"]
    /\ lastGC["main"] > 0

\* C26, as claimed: a reclaim pass that ends on ErrNoRewrite returns true if
\* and only if one of its RunValueLogGC calls returned success.
C26_NoRewriteReturnsReclaimed ==
    \A d \in DBs :
        (PassDone(d) /\
         obs[d].calls[Len(obs[d].calls) - 1].res = "noRewrite") =>
            (obs[d].calls[Len(obs[d].calls)].res = TRUE <=>
                \E i \in 3..(Len(obs[d].calls) - 1) :
                    obs[d].calls[i].res = "ok")

\* C24, as claimed: newBadger does not wait for the stop signal, so New
\* eventually returns, with the orchestrator or with an error, although the
\* stop signal never fires. The runs that make MaxGcCount passes, where the
\* timers of the model end, are left aside: the run that refutes the claim
\* is one whose task ticks for ever.
C24_ConstructionReturns ==
    <>(\/ newPc \in {NewOk, NewErr}
       \/ \E d \in DBs : gcCount[d] = MaxGcCount)

C27_BaselineMonotone ==
    [][gcSizeDiff > 0 =>
          /\ (size' = size \/ size' > size + gcSizeDiff)
          /\ (pc["gc"] = "run" /\ pc'["gc"] = "ret" /\
              SumSeq(dbSize, databases) <= size + gcSizeDiff) =>
                 /\ CountOp(obs'["gc"].calls, "CollectGarbage") = 0
                 /\ size' = size]_vars

\* A pass has shrunk the store by more than T below the baseline it had set;
\* the next tick has measured that size, made no pass and kept the baseline.
C27_Witness ==
    /\ gcSizeDiff > 0
    /\ pc["gc"] = "ret"
    /\ entry["gc"] = "timer"
    /\ size > 0
    /\ obs["gc"].old = size
    /\ size - obs["gc"].in > gcSizeDiff
    /\ obs["gc"].calls = <<>>

\* The sequence of bytes a is the beginning of b.
IsPrefixOf(a, b) == Len(a) <= Len(b) /\ SubSeq(b, 1, Len(a)) = a

\* C28: the four prefixes are pairwise distinct and none is the beginning of
\* another; for each of them and every key k that is not empty p.trim of
\* p.key(k) is k and true; p.trim of bytes no longer than p is nil and
\* false.
C28_PrefixRoundTrip ==
    /\ Cardinality({<<"s", ":">>, <<"t", ":">>, <<"d", ":">>, <<"i", ":">>}
                   \cap Prefixes) = 4
    /\ \A p, q \in Prefixes : IsPrefixOf(p, q) => p = q
    /\ (pfx.keyed /\ pfx.trimmed /\ pfx.k # <<>>) =>
          (~pfx.out.isNil /\ pfx.out.bytes = pfx.k /\ pfx.out.ok)
    /\ (pfx.trimmed /\ Len(pfx.buf) <= Len(pfx.p)) =>
          (pfx.out.isNil /\ ~pfx.out.ok)

\* trim has returned the three bytes of a key that itself begins like a
\* prefix, cut out of the key of the dictionaries.
C28_Witness ==
    /\ pfx.p = <<"d", ":">>
    /\ pfx.k = <<"s", ":", "x">>
    /\ pfx.keyed
    /\ pfx.trimmed
    /\ pfx.out.bytes = <<"s", ":", "x">>
    /\ pfx.out.ok

====
